---- MODULE Spec2Model ----
(***************************************************************************)
(* The batch orchestrator of aigile: cmd.runGenerate with its formatting   *)
(* helper, driving an llm.Provider and the GitHubProvider; the item        *)
(* sources (XLSXReader, GoogleSheetsReader), the OpenAIProvider and the    *)
(* lookups and creates of the providers, each also run on its own.         *)
(*                                                                         *)
(* A Go string is a sequence of tokens (the empty string is <<>>), a Go    *)
(* pointer is a sequence of length 0 (nil) or 1, and a Go error is the     *)
(* chain of its messages, outermost first (nil is <<>>).                   *)
(***************************************************************************)
EXTENDS Integers, Sequences, FiniteSets, TLC

VARIABLES
    items,            \* the records r.Read() returned
    autoTasks,        \* the --auto-tasks flag
    idx,              \* position of the range loop over items (1-based)
    pc,               \* the place runGenerate is at
    content,          \* *llm.GeneratedContent of the current item
    title,            \* title of the current item
    project,          \* *provider.ProjectInfo of the current item
    fullDescription,  \* the rendered body of the current item
    createdIssue,     \* the primary issue of the current item
    taskIDs,          \* ids collected from the child issues of the current item
    taskIdx,          \* position of the loop over content.SuggestedTasks
    linkIdx,          \* position of the loop over taskIDs
    result,           \* what runGenerate returned, or how it ended
    calls,            \* the calls made for the item being processed, with what
                      \* each returned to runGenerate
    nextNumber,       \* the tracker: number the next created issue gets
    lookups,          \* GetProjectByName calls made since the batch began
    args,             \* the arguments of a function that is checked on its own
    ret               \* what that function returned

vars == <<items, autoTasks, idx, pc, content, title, project, fullDescription,
          createdIssue, taskIDs, taskIdx, linkIdx, result, calls, nextNumber,
          lookups, args, ret>>

---------------------------------------------------------------------------
(* Bounds of the model. *)

MaxItems == 2
MaxTasks == 2
MaxCriteria == 2
ShortContext == 16

(* Constants of the program. *)

TitleContextBytes == 50
StatusOK == 200

---------------------------------------------------------------------------
(* Values. *)

Nil == <<>>
Ptr(v) == <<v>>
Deref(p) == p[1]
NoError == <<>>
NL == "\n"

Wrap(msg, err) == <<msg>> \o err

RECURSIVE Concat(_)
Concat(ss) == IF ss = <<>> THEN <<>> ELSE Head(ss) \o Concat(Tail(ss))

SeqsUpTo(S, n) == UNION {[1..k -> S] : k \in 0..n}

UserStory == <<"User Story">>

StoryTag == "[<book> User Story] "
TaskTag == "[<tools> Task] "

ContextOf(n) == [k \in 1..n |-> ToString(k % 10)]

Contexts == {ContextOf(ShortContext), ContextOf(TitleContextBytes + 1)}

Parents == {<<>>, <<"Team Alpha">>}

Items ==
    [Type : {UserStory}, Parent : Parents, Context : Contexts,
     Criteria : {<< <<"Support Visa">> >>}]

TaskText(k) == <<"task ", ToString(k)>>

TaskLists == {[k \in 1..n |-> TaskText(n + 1 - k)] : n \in 0..MaxTasks}

GeneratedContents ==
    [Title : {<<>>, <<"Pay by card">>},
     Description : {<<"As a user I want to pay">>},
     AcceptanceCriteria : {<< <<"Given a card Then it is charged">> >>},
     SuggestedTasks : TaskLists,
     Type : {UserStory}]

---------------------------------------------------------------------------
(* llm.Provider.GenerateContent: a content and no error, or no content and *)
(* an error.                                                               *)

GenerateOutcomes ==
    {[panic |-> FALSE, content |-> Ptr(c), err |-> NoError] : c \in GeneratedContents}
        \cup {[panic |-> FALSE, content |-> Nil, err |-> <<"generation failed">>]}

(* cmd.runGenerate, the title of the primary issue.  item.Context[:50]     *)
(* panics when the context has fewer than 50 bytes.                        *)

IssueTitle(c, item) ==
    IF c.Title # <<>>
    THEN [panic |-> FALSE, title |-> <<StoryTag>> \o c.Title]
    ELSE IF Len(item.Context) < TitleContextBytes
    THEN [panic |-> TRUE, title |-> <<>>]
    ELSE [panic |-> FALSE,
          title |-> <<StoryTag>> \o item.Type \o <<" ">>
                        \o SubSeq(item.Context, 1, TitleContextBytes)]

(* cmd.formatDescription *)

(* A slip of the numbering: entries counted from 0. *)
NumberedListFromZero(list) ==
    Concat([k \in 1..Len(list) |-> <<ToString(k - 1), ". ">> \o list[k] \o <<NL>>])

NumberedList(list) ==
    Concat([k \in 1..Len(list) |-> <<ToString(k), ". ">> \o list[k] \o <<NL>>])

formatDescription(c) ==
    c.Description \o <<NL, NL>>
      \o (IF Len(c.AcceptanceCriteria) > 0
          THEN <<"## Acceptance Criteria", NL>>
                   \o NumberedList(c.AcceptanceCriteria) \o <<NL>>
          ELSE <<>>)
      \o (IF Len(c.SuggestedTasks) > 0
          THEN <<"## Suggested Tasks", NL>>
                   \o NumberedList(c.SuggestedTasks) \o <<NL>>
          ELSE <<>>)

---------------------------------------------------------------------------
(* The GitHub side.  A response of the REST client: err is the error the   *)
(* call returned, hasResp tells whether a *github.Response came with it (a *)
(* transport failure yields none).                                         *)

IssueID(n) == 1000 + n

CreateResponses(n, ids) ==
    {[err |-> NoError, hasResp |-> TRUE, status |-> "201 Created",
      body |-> "", issue |-> [number |-> n, id |-> i]] : i \in ids}
      \cup
    {[err |-> <<"validation failed">>, hasResp |-> TRUE,
      status |-> "422 Unprocessable Entity", body |-> "Validation Failed",
      issue |-> [number |-> 0, id |-> 0]],
     [err |-> <<"dial tcp: i/o timeout">>, hasResp |-> FALSE,
      status |-> "", body |-> "", issue |-> [number |-> 0, id |-> 0]]}

(* The id of the primary issue is never read, so the model gives it the    *)
(* tracker's id; the id of a child issue may also come back as 0.          *)
PrimaryResponses(n) == CreateResponses(n, {IssueID(n)})
TaskResponses(n) == CreateResponses(n, {IssueID(n), 0})

AttachOutcomes == {NoError, <<"failed to get issue">>}

(* A slip of the attach policy: an attach that fails makes CreateIssue     *)
(* fail.                                                                   *)
CreateIssueAttachFatal(proj, resp, attachErr) ==
    IF resp.err # NoError
    THEN IF ~resp.hasResp
         THEN [panic |-> TRUE, issue |-> Nil, err |-> NoError, attach |-> "none"]
         ELSE [panic |-> FALSE, issue |-> Nil,
               err |-> <<"failed to create issue", resp.status, resp.body>> \o resp.err,
               attach |-> "none"]
    ELSE IF proj # Nil /\ attachErr # NoError
    THEN [panic |-> FALSE, issue |-> Nil,
          err |-> Wrap("failed to add issue to project", attachErr),
          attach |-> "failed"]
    ELSE [panic |-> FALSE, issue |-> Ptr(resp.issue), err |-> NoError,
          attach |-> IF proj # Nil THEN "added" ELSE "none"]

(* GitHubProvider.CreateIssue.  resp is what p.issues.Create returned and  *)
(* attachErr what addIssueToProject returns if it is called.  Reading      *)
(* resp.Body of a nil response is a nil dereference.                       *)

CreateIssue(proj, resp, attachErr) ==
    IF resp.err # NoError
    THEN IF ~resp.hasResp
         THEN [panic |-> TRUE, issue |-> Nil, err |-> NoError, attach |-> "none"]
         ELSE [panic |-> FALSE, issue |-> Nil,
               err |-> <<"failed to create issue", resp.status, resp.body>> \o resp.err,
               attach |-> "none"]
    ELSE [panic |-> FALSE, issue |-> Ptr(resp.issue), err |-> NoError,
          attach |-> IF proj # Nil
                     THEN (IF attachErr = NoError THEN "added" ELSE "failed")
                     ELSE "none"]

(* The attach outcomes CreateIssue can meet: addIssueToProject runs only   *)
(* for a created issue and a project.                                      *)

AttachChoices(proj, resp) ==
    IF resp.err = NoError /\ proj # Nil THEN AttachOutcomes ELSE {NoError}

TeamAlpha == [ID |-> "PVT_1", Number |-> 1, Title |-> <<"Team Alpha">>]
TeamBeta == [ID |-> "PVT_2", Number |-> 2, Title |-> <<"Team Beta">>]

GraphQLResponse(err, hasResp, status, gqlErrors, nodes) ==
    [err |-> err, hasResp |-> hasResp, status |-> status,
     gqlErrors |-> gqlErrors, nodes |-> nodes]

ProjectResponses ==
    {GraphQLResponse(<<"401 Bad credentials">>, TRUE, 401, 0, <<>>),
     GraphQLResponse(NoError, TRUE, StatusOK, 0, <<TeamBeta>>),
     GraphQLResponse(NoError, TRUE, StatusOK, 0, <<TeamBeta, TeamAlpha>>)}

(* A slip of the search: the last project with the title, not the first. *)
GetProjectByNameLast(resp, projectName) ==
    IF resp.err # NoError
    THEN IF resp.hasResp /\ resp.status # StatusOK
         THEN [project |-> Nil, err |-> <<"failed to get projects">>]
         ELSE [project |-> Nil,
               err |-> Wrap("failed to execute GraphQL request", resp.err)]
    ELSE IF resp.status # StatusOK
    THEN [project |-> Nil, err |-> <<"failed to get projects">>]
    ELSE IF resp.gqlErrors > 0
    THEN [project |-> Nil, err |-> <<"graphql errors occurred">>]
    ELSE LET hits == {k \in 1..Len(resp.nodes) : resp.nodes[k].Title = projectName}
         IN  IF hits = {}
             THEN [project |-> Nil, err |-> <<"project not found">>]
             ELSE LET last == CHOOSE k \in hits : \A j \in hits : k >= j
                  IN  [project |-> Ptr([ProjectID |-> resp.nodes[last].ID,
                                        ProjectNumber |-> resp.nodes[last].Number,
                                        ProjectOwner |-> <<>>]),
                       err |-> NoError]

(* GitHubProvider.GetProjectByName *)

GetProjectByName(resp, projectName) ==
    IF resp.err # NoError
    THEN IF resp.hasResp /\ resp.status # StatusOK
         THEN [project |-> Nil, err |-> <<"failed to get projects">>]
         ELSE [project |-> Nil,
               err |-> Wrap("failed to execute GraphQL request", resp.err)]
    ELSE IF resp.status # StatusOK
    THEN [project |-> Nil, err |-> <<"failed to get projects">>]
    ELSE IF resp.gqlErrors > 0
    THEN [project |-> Nil, err |-> <<"graphql errors occurred">>]
    ELSE LET hits == {k \in 1..Len(resp.nodes) : resp.nodes[k].Title = projectName}
         IN  IF hits = {}
             THEN [project |-> Nil, err |-> <<"project not found">>]
             ELSE LET first == CHOOSE k \in hits : \A j \in hits : k <= j
                  IN  [project |-> Ptr([ProjectID |-> resp.nodes[first].ID,
                                        ProjectNumber |-> resp.nodes[first].Number,
                                        ProjectOwner |-> <<>>]),
                       err |-> NoError]

SubIssueResponses ==
    {[err |-> NoError, status |-> 201],
     [err |-> NoError, status |-> 404]}

(* GitHubProvider.AddSubIssue *)

AddSubIssue(parentNumber, childID, resp) ==
    IF resp.err # NoError
    THEN Wrap("failed to execute sub-issues request", resp.err)
    ELSE IF resp.status < 200 \/ resp.status >= 300
    THEN <<"failed to add sub-issues">>
    ELSE NoError

---------------------------------------------------------------------------
(* cmd.runGenerate *)

(* Slips of the error policy and of the branch conditions: the properties *)
(* at the end of the module hold of the definitions that follow and fail   *)
(* of these.                                                               *)
FatalOnlyGenerate(site) == site \in {"generate"}
FatalOnlyCreate(site) == site \in {"create"}
FatalLookupToo(site) == site \in {"generate", "create", "lookup"}
FatalTaskToo(site) == site \in {"generate", "create", "task"}
FatalLinkToo(site) == site \in {"generate", "create", "link"}
NeedsLookupAlways(item) == TRUE
NeedsLookupNever(item) == FALSE
NeedsLookupOnce(item) == item.Parent # <<>> /\ lookups = 0
CollectTaskIDFront(ids, issue) == IF issue.id # 0 THEN <<issue.id>> \o ids ELSE ids

(* Which call sites end the batch when the call returns an error. *)
Fatal(site) == site \in {"generate", "create"}

NeedsLookup(item) == item.Parent # <<>>

(* A slip that makes an item depend on its place in the batch. *)
SubTasksRequestedFirstItem(flag, c) ==
    flag /\ Len(c.SuggestedTasks) > 0 /\ idx = 1

SubTasksRequested(flag, c) == flag /\ Len(c.SuggestedTasks) > 0

(* Slips of the collection of child ids: an id collected twice, the id     *)
(* before the child's, an id collected whatever its value.                 *)
CollectTaskIDTwice(ids, issue) ==
    IF issue.id # 0 THEN ids \o <<issue.id, issue.id>> ELSE ids
CollectTaskIDPrevious(ids, issue) ==
    IF issue.id # 0 THEN Append(ids, issue.id - 1) ELSE ids
CollectTaskIDAlways(ids, issue) == Append(ids, issue.id)

CollectTaskID(ids, issue) == IF issue.id # 0 THEN Append(ids, issue.id) ELSE ids

TaskTitle(task) == <<TaskTag>> \o task

(* A slip of the child body: the number that follows the parent's. *)
TaskDescriptionNextNumber(number, storyTitle, task) ==
    <<"Task for User Story #", ToString(number + 1), ": ">> \o storyTitle
        \o <<NL, NL>> \o task

TaskDescription(number, storyTitle, task) ==
    <<"Task for User Story #", ToString(number), ": ">> \o storyTitle
        \o <<NL, NL>> \o task

Running == [state |-> "running", err |-> NoError]
Returned(err) == [state |-> "returned", err |-> err]
Panicked(msg) == [state |-> "panicked", err |-> <<msg>>]

Init ==
    /\ items \in SeqsUpTo(Items, MaxItems)
    /\ autoTasks \in BOOLEAN
    /\ idx = 1
    /\ pc = IF items = <<>> THEN "done" ELSE "generate"
    /\ result = IF items = <<>> THEN Returned(NoError) ELSE Running
    /\ content = Nil
    /\ title = <<>>
    /\ project = Nil
    /\ fullDescription = <<>>
    /\ createdIssue = Nil
    /\ taskIDs = <<>>
    /\ taskIdx = 0
    /\ linkIdx = 0
    /\ calls = <<>>
    /\ nextNumber = 1
    /\ lookups = 0
    /\ args = <<>>
    /\ ret = <<>>

(* The range loop moves to the next item, or runGenerate returns nil. *)
NextItem ==
    /\ idx' = idx + 1
    /\ pc' = IF idx < Len(items) THEN "generate" ELSE "done"
    /\ result' = IF idx < Len(items) THEN result ELSE Returned(NoError)

Abort(err) ==
    /\ idx' = idx
    /\ pc' = "done"
    /\ result' = Returned(err)

Panic(msg) ==
    /\ idx' = idx
    /\ pc' = "done"
    /\ result' = Panicked(msg)

Goto(place) ==
    /\ idx' = idx
    /\ pc' = place
    /\ result' = result

(* Lines 86-104: the generator call and the title.  Outcomes(item) is     *)
(* what the generator behind llmProvider can return for the item; a panic  *)
(* inside the generator ends the process.                                  *)
GenerateFrom(Outcomes(_)) ==
    /\ pc = "generate"
    /\ \E out \in Outcomes(items[idx]) :
         LET item == items[idx]
             call == [op |-> "GenerateContent", item |-> idx, type |-> item.Type,
                      parent |-> item.Parent, context |-> item.Context,
                      criteria |-> item.Criteria, generateTasks |-> autoTasks,
                      err |-> out.err]
         IN  /\ calls' = <<call>>
             /\ content' = out.content
             /\ project' = Nil
             /\ fullDescription' = <<>>
             /\ createdIssue' = Nil
             /\ taskIDs' = <<>>
             /\ taskIdx' = 0
             /\ linkIdx' = 0
             /\ IF out.panic
                THEN /\ title' = <<>>
                     /\ Panic("index out of range")
                ELSE IF out.err # NoError
                THEN /\ title' = <<>>
                     /\ IF Fatal("generate")
                        THEN Abort(Wrap("failed to generate content", out.err))
                        ELSE NextItem
                ELSE LET t == IssueTitle(Deref(out.content), item)
                     IN  /\ title' = t.title
                         /\ IF t.panic
                            THEN Panic("slice bounds out of range")
                            ELSE Goto(IF NeedsLookup(item) THEN "lookup" ELSE "create")
    /\ UNCHANGED <<items, autoTasks, nextNumber, lookups, args, ret>>

(* The generator as runGenerate sees it, through the llm.Provider          *)
(* interface.                                                              *)
AnyProvider(item) == GenerateOutcomes

Generate == GenerateFrom(AnyProvider)

(* Lines 106-117: the project of the item's parent. *)
ResolveProject ==
    /\ pc = "lookup"
    /\ \E resp \in ProjectResponses :
         LET item == items[idx]
             r == GetProjectByName(resp, item.Parent)
             call == [op |-> "GetProjectByName", item |-> idx,
                      name |-> item.Parent, project |-> r.project, err |-> r.err]
         IN  /\ calls' = Append(calls, call)
             /\ project' = r.project
             /\ IF r.err # NoError
                THEN IF Fatal("lookup")
                     THEN Abort(Wrap("failed to get project info", r.err))
                     ELSE Goto("create")
                ELSE IF r.project = Nil
                     THEN Panic("nil pointer dereference")
                     ELSE Goto("create")
    /\ lookups' = lookups + 1
    /\ UNCHANGED <<items, autoTasks, content, title, fullDescription,
                   createdIssue, taskIDs, taskIdx, linkIdx, nextNumber, args, ret>>

(* Lines 119-128: the primary issue. *)
CreatePrimary ==
    /\ pc = "create"
    /\ fullDescription' = formatDescription(Deref(content))
    /\ \E resp \in PrimaryResponses(nextNumber) :
       \E attachErr \in AttachChoices(project, resp) :
         LET item == items[idx]
             r == CreateIssue(project, resp, attachErr)
             call == [op |-> "CreateIssue", item |-> idx, site |-> "primary",
                      task |-> 0, title |-> title,
                      description |-> fullDescription',
                      labels |-> <<item.Type>>, project |-> project,
                      issue |-> r.issue, err |-> r.err, panic |-> r.panic]
         IN  /\ calls' = Append(calls, call)
             /\ createdIssue' = r.issue
             /\ IF r.panic
                THEN /\ Panic("nil pointer dereference")
                     /\ UNCHANGED <<nextNumber, taskIdx>>
                ELSE IF r.err # NoError
                THEN /\ IF Fatal("create")
                        THEN Abort(Wrap("failed to create issue", r.err))
                        ELSE NextItem
                     /\ UNCHANGED <<nextNumber, taskIdx>>
                ELSE /\ nextNumber' = nextNumber + 1
                     /\ IF SubTasksRequested(autoTasks, Deref(content))
                        THEN Goto("tasks") /\ taskIdx' = 1
                        ELSE NextItem /\ taskIdx' = taskIdx
    /\ taskIDs' = <<>>
    /\ UNCHANGED <<items, autoTasks, content, title, project, linkIdx, lookups,
                   args, ret>>

(* Lines 129-144: one suggested task becomes a child issue. *)
CreateTask ==
    /\ pc = "tasks"
    /\ \E resp \in TaskResponses(nextNumber) :
       \E attachErr \in AttachChoices(project, resp) :
         LET tasks == Deref(content).SuggestedTasks
             task == tasks[taskIdx]
             r == CreateIssue(project, resp, attachErr)
             call == [op |-> "CreateIssue", item |-> idx, site |-> "task",
                      task |-> taskIdx, title |-> TaskTitle(task),
                      description |->
                          TaskDescription(Deref(createdIssue).number, title, task),
                      labels |-> << <<"Task">> >>, project |-> project,
                      issue |-> r.issue, err |-> r.err, panic |-> r.panic]
             ids == IF r.panic \/ r.err # NoError
                    THEN taskIDs
                    ELSE CollectTaskID(taskIDs, Deref(r.issue))
         IN  /\ calls' = Append(calls, call)
             /\ taskIDs' = ids
             /\ nextNumber' = IF r.panic \/ r.err # NoError
                              THEN nextNumber ELSE nextNumber + 1
             /\ IF r.panic
                THEN Panic("nil pointer dereference") /\ UNCHANGED <<taskIdx, linkIdx>>
                ELSE IF r.err # NoError /\ Fatal("task")
                THEN Abort(Wrap("failed to create task issue", r.err))
                         /\ UNCHANGED <<taskIdx, linkIdx>>
                ELSE IF taskIdx < Len(tasks)
                THEN Goto("tasks") /\ taskIdx' = taskIdx + 1 /\ linkIdx' = linkIdx
                ELSE IF Len(ids) > 0
                THEN Goto("link") /\ linkIdx' = 1 /\ taskIdx' = taskIdx
                ELSE NextItem /\ UNCHANGED <<taskIdx, linkIdx>>
    /\ UNCHANGED <<items, autoTasks, content, title, project, fullDescription,
                   createdIssue, lookups, args, ret>>

(* Lines 145-150: one collected child is linked under the primary issue. *)
LinkTask ==
    /\ pc = "link"
    /\ \E resp \in SubIssueResponses :
         LET parentNumber == Deref(createdIssue).number
             taskID == taskIDs[linkIdx]
             err == AddSubIssue(parentNumber, taskID, resp)
             call == [op |-> "AddSubIssue", item |-> idx,
                      parentNumber |-> parentNumber, childID |-> taskID,
                      err |-> err]
         IN  /\ calls' = Append(calls, call)
             /\ IF err # NoError /\ Fatal("link")
                THEN Abort(Wrap("failed to add sub-issue", err)) /\ linkIdx' = linkIdx
                ELSE IF linkIdx < Len(taskIDs)
                THEN Goto("link") /\ linkIdx' = linkIdx + 1
                ELSE NextItem /\ linkIdx' = linkIdx
    /\ UNCHANGED <<items, autoTasks, content, title, project, fullDescription,
                   createdIssue, taskIDs, taskIdx, nextNumber, lookups, args, ret>>

Next == Generate \/ ResolveProject \/ CreatePrimary \/ CreateTask \/ LinkTask

Spec == Init /\ [][Next]_vars

---------------------------------------------------------------------------
(* cmd.formatDescription checked on its own: the inputs are drawn from     *)
(* bounded lists, FormatStep renders one of them.                          *)

FormatTexts == {<<"alpha">>, <<"beta">>}

FormatInputs ==
    [Title : {<<"Pay by card">>},
     Description : {<<>>, <<"As a user I want to pay">>},
     AcceptanceCriteria : SeqsUpTo(FormatTexts, MaxCriteria),
     SuggestedTasks : SeqsUpTo(FormatTexts, MaxTasks),
     Type : {UserStory}]

InitFormat ==
    /\ items = <<>>
    /\ autoTasks = FALSE
    /\ idx = 1
    /\ pc = "format"
    /\ result = Running
    /\ content \in {Ptr(c) : c \in FormatInputs}
    /\ title = <<>>
    /\ project = Nil
    /\ fullDescription = <<>>
    /\ createdIssue = Nil
    /\ taskIDs = <<>>
    /\ taskIdx = 0
    /\ linkIdx = 0
    /\ calls = <<>>
    /\ nextNumber = 1
    /\ lookups = 0
    /\ args = <<>>
    /\ ret = <<>>

FormatStep ==
    /\ pc = "format"
    /\ fullDescription' = formatDescription(Deref(content))
    /\ pc' = "formatted"
    /\ UNCHANGED <<items, autoTasks, idx, content, title, project, createdIssue,
                   taskIDs, taskIdx, linkIdx, result, calls, nextNumber, lookups,
                   args, ret>>

SpecFormat == InitFormat /\ [][FormatStep]_vars

---------------------------------------------------------------------------
(* The item sources.  A sheet is a sequence of rows, a row a sequence of   *)
(* cells; the first row is the header.                                     *)

MaxRows == 2

HeaderCells == 4

IsValid(t) == t = UserStory

Bug == <<"Bug">>

Header == << <<"Type">>, <<"Parent">>, <<"Context">>, <<"Criteria">> >>

DataRows ==
    {<<t, p, ContextOf(TitleContextBytes + 1), <<"Support Visa">> >> :
        t \in {UserStory, Bug}, p \in Parents}
      \cup {<<Bug, <<>> >>}

Sheets == {<<>>} \cup {<<Header>> \o rs : rs \in SeqsUpTo(DataRows, MaxRows)}

(* What the file or the Sheets API hands to the reader: the rows, or an    *)
(* error in their place.                                                   *)
ReadInputs ==
    {[source |-> src, err |-> NoError, rows |-> sh] :
        src \in {"xlsx", "sheets"}, sh \in Sheets}
      \cup {[source |-> src, err |-> <<"unavailable">>, rows |-> <<>>] :
               src \in {"xlsx", "sheets"}}

RowItem(row) ==
    [Type |-> row[1], Parent |-> row[2], Context |-> row[3],
     Criteria |-> SubSeq(row, 4, Len(row))]

(* The items of the rows that have at least four cells, in row order. *)
RECURSIVE RowItems(_)
RowItems(rs) ==
    IF rs = <<>>
    THEN <<>>
    ELSE (IF Len(Head(rs)) < HeaderCells THEN <<>> ELSE <<RowItem(Head(rs))>>)
             \o RowItems(Tail(rs))

(* XLSXReader.Read: the first row with four cells and an unknown type      *)
(* makes the whole read fail.                                              *)
XLSXReaderRead(in) ==
    IF in.err # NoError
    THEN [items |-> <<>>, err |-> Wrap("failed to get rows", in.err)]
    ELSE IF Len(in.rows) = 0
    THEN [items |-> <<>>, err |-> <<"failed to get rows: sheet is empty or invalid">>]
    ELSE LET bad == {i \in 2..Len(in.rows) :
                        Len(in.rows[i]) >= HeaderCells /\ ~IsValid(in.rows[i][1])}
         IN  IF bad # {}
             THEN LET i == CHOOSE b \in bad : \A o \in bad : b <= o
                  IN  [items |-> <<>>,
                       err |-> <<"invalid item type at row ", ToString(i), ": ">>
                                   \o in.rows[i][1]]
             ELSE [items |-> RowItems(Tail(in.rows)), err |-> NoError]

(* GoogleSheetsReader.Read: the type cell is converted and kept as it is.  *)
GoogleSheetsReaderRead(in) ==
    IF in.err # NoError
    THEN [items |-> <<>>, err |-> Wrap("unable to retrieve data from sheet", in.err)]
    ELSE IF Len(in.rows) = 0
    THEN [items |-> <<>>, err |-> NoError]
    ELSE [items |-> RowItems(Tail(in.rows)), err |-> NoError]

Read(in) ==
    IF in.source = "xlsx" THEN XLSXReaderRead(in) ELSE GoogleSheetsReaderRead(in)

(* cmd.runGenerate from its first line: the source is read, then the items *)
(* are processed.                                                          *)
InitRead ==
    /\ args \in ReadInputs
    /\ ret = <<>>
    /\ items = <<>>
    /\ autoTasks \in BOOLEAN
    /\ idx = 1
    /\ pc = "read"
    /\ result = Running
    /\ content = Nil
    /\ title = <<>>
    /\ project = Nil
    /\ fullDescription = <<>>
    /\ createdIssue = Nil
    /\ taskIDs = <<>>
    /\ taskIdx = 0
    /\ linkIdx = 0
    /\ calls = <<>>
    /\ nextNumber = 1
    /\ lookups = 0

(* Lines 43-56: r.Read() and the error it may return. *)
ReadInput ==
    /\ pc = "read"
    /\ LET r == Read(args)
       IN  /\ ret' = r
           /\ items' = r.items
           /\ IF r.err # NoError
              THEN /\ pc' = "done"
                   /\ result' = Returned(Wrap("failed to read input", r.err))
              ELSE /\ pc' = IF r.items = <<>> THEN "done" ELSE "generate"
                   /\ result' = IF r.items = <<>> THEN Returned(NoError) ELSE Running
    /\ UNCHANGED <<autoTasks, idx, content, title, project, fullDescription,
                   createdIssue, taskIDs, taskIdx, linkIdx, calls, nextNumber,
                   lookups, args>>

NextRead ==
    ReadInput \/ Generate \/ ResolveProject \/ CreatePrimary \/ CreateTask \/ LinkTask

SpecRead == InitRead /\ [][NextRead]_vars

---------------------------------------------------------------------------
(* llm.OpenAIProvider.  The text of a response is a sequence of            *)
(* characters.                                                             *)

MaxResponse == 5

Chars == {"{", "}", "a"}

Responses == SeqsUpTo(Chars, MaxResponse)

(* strings.Index and strings.LastIndex of a character, counted from 1;     *)
(* 0 when the character does not occur.                                    *)
Index(s, c) ==
    LET at == {k \in 1..Len(s) : s[k] = c}
    IN  IF at = {} THEN 0 ELSE CHOOSE k \in at : \A o \in at : k <= o

LastIndex(s, c) ==
    LET at == {k \in 1..Len(s) : s[k] = c}
    IN  IF at = {} THEN 0 ELSE CHOOSE k \in at : \A o \in at : k >= o

cleanJSONResponse(text) ==
    LET start == Index(text, "{")
        end == LastIndex(text, "}")
    IN  IF start = 0 \/ end = 0 \/ end < start
        THEN text
        ELSE SubSeq(text, start, end)

InitClean ==
    /\ args \in Responses
    /\ ret = <<>>
    /\ items = <<>>
    /\ autoTasks = FALSE
    /\ idx = 1
    /\ pc = "cleanJSONResponse"
    /\ result = Running
    /\ content = Nil
    /\ title = <<>>
    /\ project = Nil
    /\ fullDescription = <<>>
    /\ createdIssue = Nil
    /\ taskIDs = <<>>
    /\ taskIdx = 0
    /\ linkIdx = 0
    /\ calls = <<>>
    /\ nextNumber = 1
    /\ lookups = 0

CleanStep ==
    /\ pc = "cleanJSONResponse"
    /\ ret' = cleanJSONResponse(args)
    /\ pc' = "cleaned"
    /\ UNCHANGED <<items, autoTasks, idx, content, title, project, fullDescription,
                   createdIssue, taskIDs, taskIdx, linkIdx, result, calls,
                   nextNumber, lookups, args>>

SpecClean == InitClean /\ [][CleanStep]_vars

(* A slip of the order of the checks: the description before the title. *)
validateDescriptionFirst(c) ==
    IF c.Description = <<>> THEN <<"description is required">>
    ELSE IF c.Title = <<>> THEN <<"title is required">>
    ELSE IF c.Type = <<>> THEN <<"type is required">>
    ELSE IF Len(c.AcceptanceCriteria) = 0
    THEN <<"at least one acceptance criterion is required">>
    ELSE NoError

(* A slip of the validation: the acceptance criteria are not looked at. *)
validateWithoutCriteria(c) ==
    IF c.Title = <<>> THEN <<"title is required">>
    ELSE IF c.Description = <<>> THEN <<"description is required">>
    ELSE IF c.Type = <<>> THEN <<"type is required">>
    ELSE NoError

validateGeneratedContent(c) ==
    IF c.Title = <<>> THEN <<"title is required">>
    ELSE IF c.Description = <<>> THEN <<"description is required">>
    ELSE IF c.Type = <<>> THEN <<"type is required">>
    ELSE IF Len(c.AcceptanceCriteria) = 0
    THEN <<"at least one acceptance criterion is required">>
    ELSE NoError

(* What json.Unmarshal can make of a cleaned response. *)
ParsedContents ==
    [Title : {<<>>, <<"Pay by card">>},
     Description : {<<>>, <<"As a user I want to pay">>},
     AcceptanceCriteria : SeqsUpTo(FormatTexts, MaxCriteria),
     SuggestedTasks : SeqsUpTo(FormatTexts, MaxTasks),
     Type : {<<>>, UserStory}]

EmptyContent ==
    [Title |-> <<>>, Description |-> <<>>, AcceptanceCriteria |-> <<>>,
     SuggestedTasks |-> <<>>, Type |-> <<>>]

(* The item types the prompt manager has a template for, and              *)
(* Manager.GetPrompt as far as its error goes.  GetPromptAny is a slip: a  *)
(* template for every type.                                                *)
PromptTypes == {UserStory}

GetPromptAny(itemType) == NoError

GetPrompt(itemType) ==
    IF itemType \in PromptTypes
    THEN NoError
    ELSE <<"invalid item type">> \o itemType

(* What OpenAIProvider.GenerateContent meets on its way: the item type it  *)
(* is given, the error of CreateChatCompletion, the number of choices in   *)
(* the response, the error of json.Unmarshal and the value it filled.      *)
OpenAIRun(itemType, apiErr, choices, parseErr, parsed) ==
    [itemType |-> itemType, apiErr |-> apiErr, choices |-> choices,
     parseErr |-> parseErr, parsed |-> parsed]

OpenAIRuns ==
    UNION {{OpenAIRun(t, NoError, 1, NoError, c) : c \in ParsedContents}
             \cup {OpenAIRun(t, <<"status code: 429">>, 0, NoError, EmptyContent),
                   OpenAIRun(t, NoError, 0, NoError, EmptyContent),
                   OpenAIRun(t, NoError, 1, <<"invalid character">>, EmptyContent)}
           : t \in {UserStory, Bug}}

(* OpenAIProvider.GenerateContent.  resp.Choices[0] of a response without  *)
(* choices is an index out of range.                                       *)
OpenAIGenerateContent(run) ==
    IF GetPrompt(run.itemType) # NoError
    THEN [panic |-> FALSE, content |-> Nil,
          err |-> Wrap("failed to get prompt", GetPrompt(run.itemType))]
    ELSE IF run.apiErr # NoError
    THEN [panic |-> FALSE, content |-> Nil,
          err |-> Wrap("failed to generate content", run.apiErr)]
    ELSE IF run.choices = 0
    THEN [panic |-> TRUE, content |-> Nil, err |-> NoError]
    ELSE IF run.parseErr # NoError
    THEN [panic |-> FALSE, content |-> Nil,
          err |-> Wrap("failed to parse JSON response", run.parseErr)]
    ELSE IF validateGeneratedContent(run.parsed) # NoError
    THEN [panic |-> FALSE, content |-> Nil,
          err |-> validateGeneratedContent(run.parsed)]
    ELSE [panic |-> FALSE, content |-> Ptr(run.parsed), err |-> NoError]

(* The calls OpenAIProvider.GenerateContent makes on that way, in order. *)
OpenAICall(op) == [op |-> op]

OpenAICalls(run) ==
    <<OpenAICall("GetPrompt")>>
      \o (IF GetPrompt(run.itemType) # NoError
          THEN <<>>
          ELSE <<OpenAICall("CreateChatCompletion")>>
                 \o (IF run.apiErr # NoError \/ run.choices = 0
                     THEN <<>>
                     ELSE <<OpenAICall("cleanJSONResponse"),
                            OpenAICall("json.Unmarshal")>>
                            \o (IF run.parseErr # NoError
                                THEN <<>>
                                ELSE <<OpenAICall("validateGeneratedContent")>>)))

InitOpenAI ==
    /\ args \in OpenAIRuns
    /\ ret = <<>>
    /\ items = <<>>
    /\ autoTasks = FALSE
    /\ idx = 1
    /\ pc = "GenerateContent"
    /\ result = Running
    /\ content = Nil
    /\ title = <<>>
    /\ project = Nil
    /\ fullDescription = <<>>
    /\ createdIssue = Nil
    /\ taskIDs = <<>>
    /\ taskIdx = 0
    /\ linkIdx = 0
    /\ calls = <<>>
    /\ nextNumber = 1
    /\ lookups = 0

OpenAIStep ==
    /\ pc = "GenerateContent"
    /\ ret' = OpenAIGenerateContent(args)
    /\ calls' = OpenAICalls(args)
    /\ pc' = "generated"
    /\ UNCHANGED <<items, autoTasks, idx, content, title, project, fullDescription,
                   createdIssue, taskIDs, taskIdx, linkIdx, result,
                   nextNumber, lookups, args>>

SpecOpenAI == InitOpenAI /\ [][OpenAIStep]_vars

---------------------------------------------------------------------------
(* cmd.runGenerate with OpenAIProvider as its generator: the outcomes of   *)
(* the generation step are those of OpenAIProvider.GenerateContent for the *)
(* type of the item.                                                       *)

BatchParsed ==
    [Title : {<<>>, <<"Pay by card">>},
     Description : {<<"As a user I want to pay">>},
     AcceptanceCriteria : {<<>>, << <<"Given a card Then it is charged">> >>},
     SuggestedTasks : {t \in TaskLists : Len(t) <= 1},
     Type : {UserStory}]

BatchRuns(itemType) ==
    {OpenAIRun(itemType, NoError, 1, NoError, c) : c \in BatchParsed}
      \cup {OpenAIRun(itemType, <<"status code: 429">>, 0, NoError, EmptyContent),
            OpenAIRun(itemType, NoError, 0, NoError, EmptyContent),
            OpenAIRun(itemType, NoError, 1, <<"invalid character">>, EmptyContent)}

OpenAIProvider(item) == {OpenAIGenerateContent(run) : run \in BatchRuns(item.Type)}

GenerateOpenAI == GenerateFrom(OpenAIProvider)

NextOpenAIBatch ==
    GenerateOpenAI \/ ResolveProject \/ CreatePrimary \/ CreateTask \/ LinkTask

SpecOpenAIBatch == Init /\ [][NextOpenAIBatch]_vars

---------------------------------------------------------------------------
(* GitHubProvider.CreateIssue checked on its own, against every kind of    *)
(* answer of the issues service.                                           *)

ProjectInfo(node) ==
    [ProjectID |-> node.ID, ProjectNumber |-> node.Number, ProjectOwner |-> <<>>]

ProjectRefs == {Nil, Ptr(ProjectInfo(TeamAlpha)), Ptr(ProjectInfo(TeamBeta))}

IssueNumbers == 1..(MaxItems + 1)

IssuesCreateResponses ==
    UNION {TaskResponses(n) : n \in IssueNumbers}
      \cup
    {[err |-> <<"401 Bad credentials">>, hasResp |-> TRUE,
      status |-> "401 Unauthorized", body |-> "Bad credentials",
      issue |-> [number |-> 0, id |-> 0]],
     [err |-> <<"404 Not Found">>, hasResp |-> TRUE,
      status |-> "404 Not Found", body |-> "Not Found",
      issue |-> [number |-> 0, id |-> 0]]}

CreateIssueArgs ==
    [project : ProjectRefs, resp : IssuesCreateResponses, attachErr : AttachOutcomes]

InitCreate ==
    /\ args \in CreateIssueArgs
    /\ ret = <<>>
    /\ items = <<>>
    /\ autoTasks = FALSE
    /\ idx = 1
    /\ pc = "CreateIssue"
    /\ result = Running
    /\ content = Nil
    /\ title = <<>>
    /\ project = Nil
    /\ fullDescription = <<>>
    /\ createdIssue = Nil
    /\ taskIDs = <<>>
    /\ taskIdx = 0
    /\ linkIdx = 0
    /\ calls = <<>>
    /\ nextNumber = 1
    /\ lookups = 0

(* One call of CreateIssue; calls lists the requests it made, in order. *)
CreateIssueStep ==
    /\ pc = "CreateIssue"
    /\ LET r == CreateIssue(args.project, args.resp, args.attachErr)
       IN  /\ ret' = r
           /\ calls' = <<[op |-> "issues.Create", err |-> args.resp.err]>>
                          \o (IF r.attach # "none"
                              THEN <<[op |-> "addIssueToProject",
                                      err |-> args.attachErr]>>
                              ELSE <<>>)
           /\ pc' = IF r.panic THEN "panicked" ELSE "returned"
    /\ UNCHANGED <<items, autoTasks, idx, content, title, project, fullDescription,
                   createdIssue, taskIDs, taskIdx, linkIdx, result, nextNumber,
                   lookups, args>>

SpecCreate == InitCreate /\ [][CreateIssueStep]_vars

---------------------------------------------------------------------------
(* GitHubProvider.addIssueToProject on its own: two GraphQL requests, the  *)
(* query of the issue's node id and the addProjectV2ItemById mutation.     *)
(* client.Do gives an error with no response (transport), an error with a *)
(* response (a status outside 2xx, or a body that does not decode), or a   *)
(* response and no error.                                                  *)

GraphQLReply(err, hasResp, status, gqlErrors, id) ==
    [err |-> err, hasResp |-> hasResp, status |-> status,
     gqlErrors |-> gqlErrors, id |-> id]

GraphQLReplies(id) ==
    {GraphQLReply(NoError, TRUE, StatusOK, FALSE, id),
     GraphQLReply(NoError, TRUE, StatusOK, TRUE, ""),
     GraphQLReply(NoError, TRUE, 204, FALSE, ""),
     GraphQLReply(<<"dial tcp: i/o timeout">>, FALSE, 0, FALSE, ""),
     GraphQLReply(<<"500 Internal Server Error">>, TRUE, 500, FALSE, ""),
     GraphQLReply(<<"unexpected end of JSON input">>, TRUE, StatusOK, FALSE, "")}

(* A slip of the first step: GraphQL errors in the reply are not looked at. *)
IssueQueryErrorStatusOnly(reply) ==
    IF reply.err # NoError
    THEN IF reply.hasResp /\ reply.status # StatusOK
         THEN <<"failed to get issue", ToString(reply.status)>>
         ELSE Wrap("failed to execute GraphQL request for issue", reply.err)
    ELSE IF reply.status # StatusOK
    THEN <<"failed to get issue", ToString(reply.status)>>
    ELSE NoError

(* Lines 250-281: what the first step makes of the reply to the query. *)
IssueQueryError(reply) ==
    IF reply.err # NoError
    THEN IF reply.hasResp /\ reply.status # StatusOK
         THEN <<"failed to get issue", ToString(reply.status)>>
         ELSE Wrap("failed to execute GraphQL request for issue", reply.err)
    ELSE IF reply.status # StatusOK
    THEN <<"failed to get issue", ToString(reply.status)>>
    ELSE IF reply.gqlErrors
    THEN <<"graphql errors occurred while getting issue">>
    ELSE NoError

(* Lines 317-356: what the second step makes of the reply to the mutation. *)
MutationError(reply) ==
    IF reply.err # NoError
    THEN IF ~reply.hasResp
         THEN Wrap("failed to execute GraphQL request for adding to project",
                   reply.err)
         ELSE IF reply.status # StatusOK
         THEN <<"failed to add issue to project", ToString(reply.status)>>
         ELSE Wrap("failed to execute GraphQL request for adding to project",
                   reply.err)
    ELSE IF ~reply.hasResp
    THEN <<"response or response body is nil after GraphQL request for adding to project">>
    ELSE IF reply.status # StatusOK
    THEN <<"failed to add issue to project", ToString(reply.status)>>
    ELSE IF reply.gqlErrors
    THEN <<"graphql errors occurred while adding to project">>
    ELSE NoError

AttachArgs ==
    [number : IssueNumbers,
     project : {ProjectInfo(TeamAlpha), ProjectInfo(TeamBeta)},
     query : GraphQLReplies("I_node"),
     mutation : GraphQLReplies("PVTI_item")]

InitAttach ==
    /\ args \in AttachArgs
    /\ ret = <<>>
    /\ items = <<>>
    /\ autoTasks = FALSE
    /\ idx = 1
    /\ pc = "queryIssueNodeID"
    /\ result = Running
    /\ content = Nil
    /\ title = <<>>
    /\ project = Nil
    /\ fullDescription = <<>>
    /\ createdIssue = Nil
    /\ taskIDs = <<>>
    /\ taskIdx = 0
    /\ linkIdx = 0
    /\ calls = <<>>
    /\ nextNumber = 1
    /\ lookups = 0

(* Step 1: the node id of the issue is asked for. *)
QueryIssueNodeID ==
    /\ pc = "queryIssueNodeID"
    /\ calls' = Append(calls, [op |-> "queryIssueNodeID", number |-> args.number,
                               projectId |-> "", contentId |-> ""])
    /\ IF IssueQueryError(args.query) # NoError
       THEN /\ pc' = "returned"
            /\ ret' = [err |-> IssueQueryError(args.query)]
       ELSE /\ pc' = "mutationAddProjectV2ItemByID"
            /\ ret' = ret
    /\ UNCHANGED <<items, autoTasks, idx, content, title, project, fullDescription,
                   createdIssue, taskIDs, taskIdx, linkIdx, result, nextNumber,
                   lookups, args>>

(* Step 2: the issue is added to the project by its node id. *)
AddProjectV2ItemByID ==
    /\ pc = "mutationAddProjectV2ItemByID"
    /\ calls' = Append(calls, [op |-> "mutationAddProjectV2ItemByID",
                               number |-> args.number,
                               projectId |-> args.project.ProjectID,
                               contentId |-> args.query.id])
    /\ pc' = "returned"
    /\ ret' = [err |-> MutationError(args.mutation)]
    /\ UNCHANGED <<items, autoTasks, idx, content, title, project, fullDescription,
                   createdIssue, taskIDs, taskIdx, linkIdx, result, nextNumber,
                   lookups, args>>

NextAttach == QueryIssueNodeID \/ AddProjectV2ItemByID

SpecAttach == InitAttach /\ [][NextAttach]_vars

---------------------------------------------------------------------------
(* GetProjectByName of both providers checked on its own.                  *)

MaxProjects == 3

TeamAlphaCopy == [ID |-> "PVT_3", Number |-> 3, Title |-> <<"Team Alpha">>]
TeamAlphaLower == [ID |-> "PVT_4", Number |-> 4, Title |-> <<"team alpha">>]

ProjectNodes == {TeamAlpha, TeamBeta, TeamAlphaCopy, TeamAlphaLower}

ProjectNames == {<<"Team Alpha">>, <<"Team Gamma">>}

LookupResponses ==
    {GraphQLResponse(NoError, TRUE, StatusOK, 0, ns) :
        ns \in SeqsUpTo(ProjectNodes, MaxProjects)}
      \cup
    {GraphQLResponse(<<"401 Bad credentials">>, TRUE, 401, 0, <<>>),
     GraphQLResponse(<<"dial tcp: i/o timeout">>, FALSE, 0, 0, <<>>),
     GraphQLResponse(<<"invalid character">>, TRUE, StatusOK, 0, <<>>),
     GraphQLResponse(NoError, TRUE, StatusOK, 1, <<TeamAlpha>>)}

(* ConsoleProvider.GetProjectByName *)
ConsoleGetProjectByName(projectName) == [project |-> Nil, err |-> NoError]

LookupArgs ==
    [provider : {"github", "console"}, resp : LookupResponses,
     projectName : ProjectNames]

InitLookup ==
    /\ args \in LookupArgs
    /\ ret = <<>>
    /\ items = <<>>
    /\ autoTasks = FALSE
    /\ idx = 1
    /\ pc = "GetProjectByName"
    /\ result = Running
    /\ content = Nil
    /\ title = <<>>
    /\ project = Nil
    /\ fullDescription = <<>>
    /\ createdIssue = Nil
    /\ taskIDs = <<>>
    /\ taskIdx = 0
    /\ linkIdx = 0
    /\ calls = <<>>
    /\ nextNumber = 1
    /\ lookups = 0

LookupStep ==
    /\ pc = "GetProjectByName"
    /\ ret' = IF args.provider = "github"
              THEN GetProjectByName(args.resp, args.projectName)
              ELSE ConsoleGetProjectByName(args.projectName)
    /\ pc' = "returned"
    /\ UNCHANGED <<items, autoTasks, idx, content, title, project, fullDescription,
                   createdIssue, taskIDs, taskIdx, linkIdx, result, calls,
                   nextNumber, lookups, args>>

SpecLookup == InitLookup /\ [][LookupStep]_vars

---------------------------------------------------------------------------
(* Reading the log of external calls. *)

IsGenerate(e) == e.op = "GenerateContent"
IsLookup(e) == e.op = "GetProjectByName"
IsCreate(e) == e.op = "CreateIssue"
IsPrimary(e) == e.op = "CreateIssue" /\ e.site = "primary"
IsTask(e) == e.op = "CreateIssue" /\ e.site = "task"
IsLink(e) == e.op = "AddSubIssue"

Succeeded(e) == ~e.panic /\ e.err = NoError
ReturnedError(e) == ~e.panic /\ e.err # NoError

Positions(Test(_)) == {k \in 1..Len(calls) : Test(calls[k])}

(* The item the log belongs to ran to the end of the loop body. *)
ItemDone == calls # <<>> /\ idx > calls[1].item

(* The suggested tasks of the item the log belongs to. *)
SuggestedTasks == Deref(content).SuggestedTasks

TaskCalls == SelectSeq(calls, IsTask)
LinkCalls == SelectSeq(calls, IsLink)

(* The ids of the children whose CreateIssue succeeded, in creation order. *)
CreatedIDs ==
    LET ok == SelectSeq(calls, LAMBDA e : IsTask(e) /\ Succeeded(e))
    IN  [k \in 1..Len(ok) |-> Deref(ok[k].issue).id]

(* The child ids passed to AddSubIssue, in call order. *)
LinkedIDs == [k \in 1..Len(LinkCalls) |-> LinkCalls[k].childID]

NonZero(ids) == SelectSeq(ids, LAMBDA i : i # 0)

IsPrefix(a, b) == Len(a) <= Len(b) /\ SubSeq(b, 1, Len(a)) = a

(* The number of the item's primary issue, once it is published. *)
PrimaryPublished == \E k \in Positions(IsPrimary) : Succeeded(calls[k])
PrimaryNumber ==
    Deref(calls[CHOOSE k \in Positions(IsPrimary) : Succeeded(calls[k])].issue).number

(* The lines of a text: the runs of tokens that end in a newline. *)
RECURSIVE SplitLines(_)
SplitLines(t) ==
    IF t = <<>>
    THEN <<>>
    ELSE LET nls == {k \in 1..Len(t) : t[k] = NL}
         IN  IF nls = {}
             THEN <<t>>
             ELSE LET k == CHOOSE n \in nls : \A o \in nls : n <= o
                  IN  <<SubSeq(t, 1, k - 1)>> \o SplitLines(SubSeq(t, k + 1, Len(t)))

HasLine(text, line) == \E k \in 1..Len(SplitLines(text)) : SplitLines(text)[k] = line

(* No step is taken once runGenerate has ended. *)
NoStepAfterEnd == [][pc # "done"]_vars

---------------------------------------------------------------------------
(* C1: when the primary CreateIssue of an item returns an error, it is the *)
(* last call of the batch and runGenerate returns that error wrapped as    *)
(* "failed to create issue": no child CreateIssue, no AddSubIssue and no   *)
(* call for a later item follows.  Every child CreateIssue and every       *)
(* AddSubIssue comes after a successful primary CreateIssue of its item.   *)
C1_State ==
    /\ \A k \in Positions(IsPrimary) :
         ReturnedError(calls[k]) =>
            /\ k = Len(calls)
            /\ pc = "done"
            /\ idx = calls[k].item
            /\ result = Returned(Wrap("failed to create issue", calls[k].err))
    /\ \A k \in Positions(IsTask) \cup Positions(IsLink) :
         \E j \in 1..(k - 1) :
            /\ IsPrimary(calls[j])
            /\ Succeeded(calls[j])
            /\ calls[j].item = calls[k].item

C1_PrimaryFailureEndsBatch == []C1_State /\ NoStepAfterEnd

C1_Witness ==
    /\ Len(items) = 2
    /\ idx = 1
    /\ pc = "done"
    /\ autoTasks
    /\ calls # <<>>
    /\ IsPrimary(calls[Len(calls)])
    /\ ReturnedError(calls[Len(calls)])
    /\ Len(SuggestedTasks) > 0

(* C2: when GenerateContent returns an error for an item, it is the only   *)
(* call made for that item and the last call of the batch; runGenerate     *)
(* returns the error wrapped as "failed to generate content", and the step *)
(* leaves the tracker as it was.                                           *)
C2_State ==
    \A k \in Positions(IsGenerate) :
       calls[k].err # NoError =>
          /\ Len(calls) = 1
          /\ pc = "done"
          /\ idx = calls[k].item
          /\ result = Returned(Wrap("failed to generate content", calls[k].err))

C2_GenerationFailureEndsBatch ==
    /\ []C2_State
    /\ [][(pc = "generate" /\ pc' = "done") => nextNumber' = nextNumber]_vars
    /\ NoStepAfterEnd

C2_Witness ==
    /\ Len(items) = 2
    /\ idx = 1
    /\ pc = "done"
    /\ Len(calls) = 1
    /\ IsGenerate(calls[1])
    /\ calls[1].err # NoError

(* C4: a GetProjectByName that returns an error yields a nil project, and  *)
(* the next call is the primary CreateIssue of the same item with a nil    *)
(* project; the lookup error is never what runGenerate returns.            *)
C4_LookupFailureStillPublishes ==
    \A k \in Positions(IsLookup) :
       calls[k].err # NoError =>
          /\ calls[k].project = Nil
          /\ result.state = "returned" =>
                (result.err = NoError \/ Head(result.err) = "failed to create issue")
          /\ IF k = Len(calls)
             THEN pc = "create" /\ result = Running /\ project = Nil
             ELSE /\ IsPrimary(calls[k + 1])
                  /\ calls[k + 1].item = calls[k].item
                  /\ calls[k + 1].project = Nil

C4_Witness ==
    \E k \in Positions(IsLookup) :
       /\ calls[k].err # NoError
       /\ k < Len(calls)
       /\ IsPrimary(calls[k + 1])
       /\ Succeeded(calls[k + 1])
       /\ items[calls[k].item].Parent = <<"Team Alpha">>

(* C5: for an item with an empty parent no GetProjectByName call is made,  *)
(* and its primary and child CreateIssue calls carry a nil project.        *)
C5_EmptyParentNoLookup ==
    \A k \in 1..Len(calls) :
       items[calls[k].item].Parent = <<>> =>
          /\ ~IsLookup(calls[k])
          /\ IsCreate(calls[k]) => calls[k].project = Nil

C5_Witness ==
    \E k \in Positions(IsTask) :
       /\ items[calls[k].item].Parent = <<>>
       /\ Succeeded(calls[k])
       /\ calls[k].project = Nil

FirstBytes(s, n) == IF Len(s) < n THEN s ELSE SubSeq(s, 1, n)

ClaimedTitle(c, item) ==
    IF c.Title # <<>>
    THEN <<StoryTag>> \o c.Title
    ELSE <<StoryTag>> \o item.Type \o <<" ">>
             \o FirstBytes(item.Context, TitleContextBytes)

SectionAt(ls, at, heading, list) ==
    /\ ls[at] = <<heading>>
    /\ \A k \in 1..Len(list) : ls[at + k] = <<ToString(k), ". ">> \o list[k]
    /\ ls[at + Len(list) + 1] = <<>>

SectionLines(list) == IF Len(list) > 0 THEN Len(list) + 2 ELSE 0

C7_SectionsKeepOrder ==
    pc = "formatted" =>
       LET c == Deref(content)
           ls == SplitLines(fullDescription)
           ac == c.AcceptanceCriteria
           st == c.SuggestedTasks
           acHeads == {k \in 1..Len(ls) : ls[k] = <<"## Acceptance Criteria">>}
           stHeads == {k \in 1..Len(ls) : ls[k] = <<"## Suggested Tasks">>}
       IN  /\ Len(ls) = 2 + SectionLines(ac) + SectionLines(st)
           /\ ls[1] = c.Description
           /\ ls[2] = <<>>
           /\ IF Len(ac) = 0
              THEN acHeads = {}
              ELSE acHeads = {3} /\ SectionAt(ls, 3, "## Acceptance Criteria", ac)
           /\ IF Len(st) = 0
              THEN stHeads = {}
              ELSE /\ stHeads = {3 + SectionLines(ac)}
                   /\ SectionAt(ls, 3 + SectionLines(ac), "## Suggested Tasks", st)

C7_Witness ==
    /\ pc = "formatted"
    /\ Deref(content).AcceptanceCriteria = << <<"beta">>, <<"alpha">> >>
    /\ Deref(content).SuggestedTasks = <<>>
    /\ HasLine(fullDescription, <<"2", ". ", "alpha">>)
    /\ ~HasLine(fullDescription, <<"## Suggested Tasks">>)

(* C8 as claimed: the body of a primary issue has a Suggested Tasks        *)
(* section only if the sub-task flag is on and the list is non-empty.      *)
C8_SectionOnlyWhenRequested ==
    \A k \in Positions(IsPrimary) :
       HasLine(calls[k].description, <<"## Suggested Tasks">>) =>
          (autoTasks /\ Len(SuggestedTasks) > 0)

C10_State ==
    \A k \in Positions(IsLink) :
       calls[k].err # NoError =>
          LET pos == Cardinality({j \in Positions(IsLink) : j <= k})
          IN  /\ result \in {Running, Returned(NoError)}
              /\ \A j \in (k + 1)..Len(calls) : ~IsCreate(calls[j])
              /\ IF pos < Len(taskIDs)
                 THEN IF k = Len(calls)
                      THEN pc = "link" /\ linkIdx = pos + 1
                      ELSE IsLink(calls[k + 1]) /\ calls[k + 1].childID = taskIDs[pos + 1]
                 ELSE /\ k = Len(calls)
                      /\ ItemDone
                      /\ pc = IF idx <= Len(items) THEN "generate" ELSE "done"

C10_LinkFailureIsAbsorbed ==
    /\ []C10_State
    /\ [][pc = "link" =>
            /\ nextNumber' = nextNumber
            /\ taskIDs' = taskIDs
            /\ createdIssue' = createdIssue]_vars

C10_Witness ==
    /\ ItemDone
    /\ pc = "generate"
    /\ Len(LinkCalls) = 2
    /\ LinkCalls[1].err # NoError
    /\ LinkCalls[2].err = NoError

(* C11 as claimed: runGenerate returns nil exactly when every item went    *)
(* through the loop, and an item goes through the loop only if its         *)
(* GenerateContent and its primary CreateIssue succeeded; a failed         *)
(* GetProjectByName, a failed child CreateIssue or a failed AddSubIssue is *)
(* never what runGenerate returns and never ends the run before the last   *)
(* item.                                                                   *)
FailedLookup(e) == IsLookup(e) /\ e.err # NoError
FailedTask(e) == IsTask(e) /\ ~Succeeded(e)
FailedLink(e) == IsLink(e) /\ e.err # NoError

Absorbed(e) == FailedLookup(e) \/ FailedTask(e) \/ FailedLink(e)

C11_ResultAsClaimed ==
    /\ result = Returned(NoError) <=> (pc = "done" /\ idx > Len(items))
    /\ ItemDone =>
          /\ calls[1].err = NoError
          /\ PrimaryPublished
    /\ (result.state = "returned" /\ result.err # NoError) =>
          Head(result.err) \in {"failed to generate content", "failed to create issue"}
    /\ \A k \in 1..Len(calls) :
          (Absorbed(calls[k]) /\ k = Len(calls)) =>
             (pc # "done" \/ result = Returned(NoError))

(* C12: the calls of an item are made one after the other in the order     *)
(* GenerateContent, GetProjectByName, primary CreateIssue, child           *)
(* CreateIssue in suggested-task order, AddSubIssue; the lookup is made    *)
(* exactly for the items with a parent; a step makes one call, and the     *)
(* first call of an item is made when all calls of the item before it were *)
(* made, items being taken in the order of the source.                     *)
Stage(e) ==
    IF IsGenerate(e) THEN 1
    ELSE IF IsLookup(e) THEN 2
    ELSE IF IsPrimary(e) THEN 3
    ELSE IF IsTask(e) THEN 4
    ELSE 5

C12_State ==
    /\ \A k \in 1..Len(calls) : calls[k].item = calls[1].item
    /\ calls # <<>> =>
          /\ Positions(IsGenerate) = {1}
          /\ calls[1].item <= idx
          /\ calls[1].context = items[calls[1].item].Context
    /\ \A j, k \in 1..Len(calls) : j < k => Stage(calls[j]) <= Stage(calls[k])
    /\ Cardinality(Positions(IsLookup)) <= 1
    /\ Cardinality(Positions(IsPrimary)) <= 1
    /\ \A k \in Positions(IsLookup) : items[calls[k].item].Parent # <<>>
    /\ \A k \in Positions(IsPrimary) :
          items[calls[k].item].Parent # <<>> => IsLookup(calls[k - 1])
    /\ \A k \in 1..Len(TaskCalls) :
          /\ TaskCalls[k].task = k
          /\ TaskCalls[k].title = TaskTitle(SuggestedTasks[k])

C12_CallsAreTotallyOrdered ==
    /\ []C12_State
    /\ [][calls' # calls =>
            /\ calls' # <<>>
            /\ calls'[Len(calls')].item = idx
            /\ IF Len(calls') = 1
               THEN \/ calls = <<>> /\ idx = 1
                    \/ calls # <<>> /\ calls[1].item = idx - 1
               ELSE calls' = Append(calls, calls'[Len(calls')])]_vars
    /\ [][idx' \in {idx, idx + 1}]_vars

C12_Witness ==
    /\ Len(calls) = 7
    /\ calls[1].item = 2
    /\ IsGenerate(calls[1])
    /\ IsLookup(calls[2])
    /\ IsPrimary(calls[3])
    /\ IsTask(calls[4])
    /\ IsTask(calls[5])
    /\ IsLink(calls[6])
    /\ IsLink(calls[7])

(* C20 as claimed: with the flag off, or with an empty suggested-tasks     *)
(* list, no child CreateIssue and no AddSubIssue is made; with the flag on *)
(* the children are attempted in list order, one call per task, and every  *)
(* suggested task of an item whose primary issue was published has been    *)
(* attempted once runGenerate has left the loop over the tasks.            *)
C20_ChildrenAsClaimed ==
    /\ (~autoTasks \/ (content # Nil /\ Len(SuggestedTasks) = 0)) =>
          Positions(IsTask) \cup Positions(IsLink) = {}
    /\ \A k \in 1..Len(TaskCalls) :
          /\ TaskCalls[k].task = k
          /\ TaskCalls[k].title = TaskTitle(SuggestedTasks[k])
    /\ (autoTasks /\ PrimaryPublished /\ pc # "tasks") =>
          Len(TaskCalls) = Len(SuggestedTasks)

(* C13 as claimed: when a data row of the input (a row with its four       *)
(* cells) carries a type that is not a recognized item type, reading fails *)
(* with an error and no items, runGenerate returns that error, and no call *)
(* is made for any row.                                                    *)
HasUnknownType(rows) ==
    \E i \in 2..Len(rows) : Len(rows[i]) >= HeaderCells /\ ~IsValid(rows[i][1])

C13_UnknownTypeFailsTheRead ==
    (pc # "read" /\ HasUnknownType(args.rows)) =>
       /\ ret.err # NoError
       /\ ret.items = <<>>
       /\ calls = <<>>
       /\ pc = "done"
       /\ result = Returned(Wrap("failed to read input", ret.err))

(* C14: a parsed output with an empty title, description or type, or with  *)
(* no acceptance criterion, is rejected: GenerateContent returns a nil     *)
(* content and the error of the first check that fails, the checks being   *)
(* title, description, type, acceptance criteria in that order; an output  *)
(* with all four present is returned with a nil error.                     *)
Parsed(run) ==
    /\ GetPrompt(run.itemType) = NoError
    /\ run.apiErr = NoError
    /\ run.choices > 0
    /\ run.parseErr = NoError

Missing(c) ==
    <<c.Title = <<>>, c.Description = <<>>, c.Type = <<>>,
      Len(c.AcceptanceCriteria) = 0>>

Required ==
    <<"title is required", "description is required", "type is required",
      "at least one acceptance criterion is required">>

C14_IncompleteOutputIsRejected ==
    (pc = "generated" /\ Parsed(args)) =>
       LET failing == {k \in 1..4 : Missing(args.parsed)[k]}
       IN  /\ ~ret.panic
           /\ IF failing = {}
              THEN ret.content = Ptr(args.parsed) /\ ret.err = NoError
              ELSE /\ ret.content = Nil
                   /\ \E k \in failing :
                         /\ \A o \in failing : k <= o
                         /\ ret.err = <<Required[k]>>

C14_Witness ==
    /\ pc = "generated"
    /\ Parsed(args)
    /\ args.parsed.Title = <<>>
    /\ args.parsed.Description = <<>>
    /\ args.parsed.Type = <<>>
    /\ args.parsed.AcceptanceCriteria = <<>>
    /\ ret.content = Nil
    /\ ret.err = <<"title is required">>

(* C15 as claimed: of a response that holds a top-level {...} object,      *)
(* cleanJSONResponse returns the first such object, from its opening brace *)
(* to the brace that closes it; a response without a '{' followed by a '}' *)
(* is returned unchanged.                                                  *)
Depth(s, from, to) ==
    Cardinality({k \in from..to : s[k] = "{"})
        - Cardinality({k \in from..to : s[k] = "}"})

(* The position of the brace that closes the first '{', 0 if none does. *)
ClosingBrace(s) ==
    LET start == Index(s, "{")
        ends == {e \in (start + 1)..Len(s) : Depth(s, start, e) = 0}
    IN  IF start = 0 \/ ends = {}
        THEN 0
        ELSE CHOOSE e \in ends : \A o \in ends : e <= o

HasBracePair(s) == \E j, k \in 1..Len(s) : j < k /\ s[j] = "{" /\ s[k] = "}"

C15_FirstObjectIsExtracted ==
    pc = "cleaned" =>
       /\ ClosingBrace(args) # 0 =>
             ret = SubSeq(args, Index(args, "{"), ClosingBrace(args))
       /\ ~HasBracePair(args) => ret = args

(* C16: when the issues service created the issue, CreateIssue returns     *)
(* that issue and a nil error, whether the attach succeeds or fails; the   *)
(* attach is requested once, after the create, when a project was given    *)
(* and the issue was created, and is not requested when the create failed  *)
(* or the project is nil.                                                  *)
Attaches == {k \in 1..Len(calls) : calls[k].op = "addIssueToProject"}

C16_AttachIsBestEffort ==
    pc # "CreateIssue" =>
       /\ args.resp.err = NoError =>
             /\ pc = "returned"
             /\ ret.issue = Ptr(args.resp.issue)
             /\ ret.err = NoError
       /\ calls[1].op = "issues.Create"
       /\ Cardinality(Attaches) <= 1
       /\ \A k \in Attaches : k = 2 /\ calls[1].err = NoError /\ args.project # Nil
       /\ (args.resp.err # NoError \/ args.project = Nil) => Attaches = {}
       /\ (args.resp.err = NoError /\ args.project # Nil) => Attaches = {2}

C16_Witness ==
    /\ pc = "returned"
    /\ args.project # Nil
    /\ args.resp.err = NoError
    /\ Attaches = {2}
    /\ calls[2].err # NoError
    /\ ret.issue = Ptr(args.resp.issue)
    /\ ret.err = NoError

(* C17 as claimed: whatever makes the create call of the issues service    *)
(* fail, CreateIssue returns a nil issue and an error that holds the       *)
(* status and the body of the response and wraps the cause; it never       *)
(* returns an issue together with an error and never ends otherwise.       *)
C17_FailureIsAnError ==
    pc # "CreateIssue" =>
       /\ pc = "returned"
       /\ ~(ret.issue # Nil /\ ret.err # NoError)
       /\ args.resp.err # NoError =>
             /\ ret.issue = Nil
             /\ ret.err = <<"failed to create issue", args.resp.status,
                            args.resp.body>> \o args.resp.err

(* C18: for an answer that lists the owner's projects, GetProjectByName of *)
(* the GitHub provider returns the id and the number of the first listed   *)
(* project whose title is the requested name, character for character,     *)
(* and a nil project with "project not found" when no listed project has   *)
(* that title.                                                             *)
Listed(resp) == resp.err = NoError /\ resp.status = StatusOK /\ resp.gqlErrors = 0

C18_FirstExactTitleMatch ==
    (pc = "returned" /\ args.provider = "github" /\ Listed(args.resp)) =>
       LET nodes == args.resp.nodes
           name == args.projectName
       IN  IF \A k \in 1..Len(nodes) : nodes[k].Title # name
           THEN ret = [project |-> Nil, err |-> <<"project not found">>]
           ELSE \E k \in 1..Len(nodes) :
                   /\ nodes[k].Title = name
                   /\ \A j \in 1..(k - 1) : nodes[j].Title # name
                   /\ ret.err = NoError
                   /\ ret.project # Nil
                   /\ Deref(ret.project).ProjectID = nodes[k].ID
                   /\ Deref(ret.project).ProjectNumber = nodes[k].Number

C18_Witness ==
    /\ pc = "returned"
    /\ args.provider = "github"
    /\ args.projectName = <<"Team Alpha">>
    /\ args.resp.nodes = <<TeamAlphaLower, TeamAlphaCopy, TeamAlpha>>
    /\ ret.err = NoError
    /\ Deref(ret.project).ProjectID = "PVT_3"

(* C19 as claimed: GetProjectByName of either provider returns a project   *)
(* and a nil error, or a nil project and an error, never a nil project     *)
(* with a nil error.                                                       *)
C19_NoEmptyResult ==
    pc = "returned" =>
       \/ ret.project # Nil /\ ret.err = NoError
       \/ ret.project = Nil /\ ret.err # NoError

(* C21: the primary CreateIssue of an item carries one label, the item's   *)
(* type; every child CreateIssue carries the one label "Task", the project *)
(* the primary CreateIssue of its item was given, nil included, and a body *)
(* that names the number the primary CreateIssue returned, followed by the *)
(* parent's title and the text of the task.                                *)
PrimaryCall == calls[CHOOSE k \in Positions(IsPrimary) : TRUE]

C21_LabelsProjectAndParentNumber ==
    /\ \A k \in Positions(IsPrimary) :
          /\ Len(calls[k].labels) = 1
          /\ calls[k].labels[1] = items[calls[k].item].Type
    /\ \A k \in Positions(IsTask) :
          /\ calls[k].labels = << <<"Task">> >>
          /\ calls[k].project = PrimaryCall.project
          /\ calls[k].description[1] = "Task for User Story #"
          /\ calls[k].description[2] = ToString(PrimaryNumber)
          /\ calls[k].description =
                <<"Task for User Story #", ToString(Deref(PrimaryCall.issue).number),
                  ": ">> \o PrimaryCall.title \o <<NL, NL>>
                    \o SuggestedTasks[calls[k].task]

C21_Witness ==
    /\ calls # <<>>
    /\ calls[1].item = 2
    /\ PrimaryPublished
    /\ PrimaryNumber = 2
    /\ PrimaryCall.project # Nil
    /\ \E k \in Positions(IsTask) :
          /\ Succeeded(calls[k])
          /\ calls[k].project = PrimaryCall.project
          /\ calls[k].description[2] = "2"

(* C22 as claimed: the processing of an item ends in one of two ways.      *)
(* Either the batch ends at the item, with an error returned, the last     *)
(* call being the item's failed GenerateContent or its failed primary      *)
(* CreateIssue; or the item goes through the loop after exactly one        *)
(* primary CreateIssue, which succeeded.  A failed lookup, child           *)
(* CreateIssue or AddSubIssue is never the last call of a batch that ends  *)
(* at the item.                                                            *)
EndedAtItem == pc = "done" /\ calls # <<>> /\ ~ItemDone

C22_TwoWaysToEnd ==
    /\ EndedAtItem =>
          /\ result.state = "returned"
          /\ result.err # NoError
          /\ LET last == calls[Len(calls)]
             IN  (IsGenerate(last) \/ IsPrimary(last)) /\ last.err # NoError
    /\ ItemDone =>
          /\ Cardinality(Positions(IsPrimary)) = 1
          /\ PrimaryPublished
    /\ (calls # <<>> /\ Absorbed(calls[Len(calls)])) => ~EndedAtItem

(* C23: the number of GetProjectByName calls made so far is the number of  *)
(* items with a parent among the items taken so far, the item in progress  *)
(* counting once its lookup is made; so a batch that ran to completion     *)
(* made one lookup per item with a parent, repeated parents included.  The *)
(* project given to an item's primary CreateIssue is the result of that    *)
(* item's own lookup, and nil when the item has no parent.                 *)
WithParent(n) == {i \in 1..n : items[i].Parent # <<>>}

C23_OneLookupPerItemWithParent ==
    /\ lookups = IF calls = <<>>
                 THEN 0
                 ELSE Cardinality(WithParent(calls[1].item - 1))
                          + Cardinality(Positions(IsLookup))
    /\ (pc = "done" /\ result = Returned(NoError)) =>
          lookups = Cardinality(WithParent(Len(items)))
    /\ \A k \in Positions(IsPrimary) :
          IF items[calls[k].item].Parent # <<>>
          THEN /\ IsLookup(calls[k - 1])
               /\ calls[k - 1].name = items[calls[k].item].Parent
               /\ calls[k].project = calls[k - 1].project
          ELSE calls[k].project = Nil

C23_Witness ==
    /\ pc = "done"
    /\ result = Returned(NoError)
    /\ Len(items) = 2
    /\ items[1].Parent # <<>>
    /\ items[2].Parent = items[1].Parent
    /\ lookups = 2
    /\ \E k \in Positions(IsLookup) : calls[k].item = 2 /\ calls[k].project # Nil

(* C24: no call is made again.  The log of an item holds one               *)
(* GenerateContent, at most one primary CreateIssue, at most one child     *)
(* CreateIssue per suggested task (exactly one, with the flag on, once the *)
(* item went through the loop) and at most one AddSubIssue per child       *)
(* created, a failed call included; and a new log is opened only for an    *)
(* item after the one of the log before, so no item is generated twice.    *)
CallsForTask(t) == {k \in Positions(IsTask) : calls[k].task = t}
CallsForChild(id) == {k \in Positions(IsLink) : calls[k].childID = id}

C24_State ==
    /\ calls # <<>> => Positions(IsGenerate) = {1}
    /\ Cardinality(Positions(IsPrimary)) <= 1
    /\ \A k \in Positions(IsTask) :
          /\ calls[k].task \in 1..Len(SuggestedTasks)
          /\ CallsForTask(calls[k].task) = {k}
    /\ (ItemDone /\ autoTasks) =>
          \A t \in 1..Len(SuggestedTasks) : Cardinality(CallsForTask(t)) = 1
    /\ \A k \in Positions(IsLink) :
          /\ CallsForChild(calls[k].childID) = {k}
          /\ \E j \in Positions(IsTask) :
                /\ j < k
                /\ Succeeded(calls[j])
                /\ Deref(calls[j].issue).id = calls[k].childID

C24_NoCallIsRetried ==
    /\ []C24_State
    /\ [][(calls' # calls /\ Len(calls') = 1) =>
            (calls = <<>> \/ calls'[1].item > calls[1].item)]_vars

C24_Witness ==
    /\ ItemDone
    /\ autoTasks
    /\ Len(SuggestedTasks) = 2
    /\ Len(TaskCalls) = 2
    /\ ReturnedError(TaskCalls[1])
    /\ Succeeded(TaskCalls[2])
    /\ Len(LinkCalls) = 1
    /\ LinkCalls[1].err # NoError

(* C28: every AddSubIssue call of an item is given the number of that      *)
(* item's primary issue and the id of a child that a CreateIssue of the    *)
(* same item returned, an issue numbered after that primary issue; the     *)
(* list of child ids holds the non-zero ids of the children of the item in *)
(* progress and nothing else, and it is empty when an item starts.         *)
C28_State ==
    /\ taskIDs = NonZero(CreatedIDs)
    /\ \A k \in Positions(IsLink) :
          /\ calls[k].item = calls[1].item
          /\ PrimaryPublished
          /\ calls[k].parentNumber = PrimaryNumber
          /\ \E j \in Positions(IsTask) :
                /\ Succeeded(calls[j])
                /\ calls[j].item = calls[k].item
                /\ Deref(calls[j].issue).id = calls[k].childID
                /\ Deref(calls[j].issue).number > PrimaryNumber

C28_LinksStayInsideTheItem ==
    /\ []C28_State
    /\ [][(calls' # calls /\ Len(calls') = 1) => taskIDs' = <<>>]_vars

C28_Witness ==
    /\ calls # <<>>
    /\ calls[1].item = 2
    /\ PrimaryPublished
    /\ PrimaryNumber = 3
    /\ \E k \in Positions(IsLink) :
          /\ calls[k].err = NoError
          /\ calls[k].parentNumber = 3
          /\ calls[k].childID = IssueID(4)

(* C30: AddSubIssue is never given the child id 0.  A child whose          *)
(* CreateIssue succeeded with id 0 is in the log as created, but its id is *)
(* not collected: the list of child ids and the AddSubIssue calls count    *)
(* the created children with a non-zero id only.                           *)
CreatedWithID(Test(_)) ==
    {k \in Positions(IsTask) : Succeeded(calls[k]) /\ Test(Deref(calls[k].issue).id)}
IsZero(id) == id = 0
IsNotZero(id) == id # 0

C30_ZeroIDIsNeverLinked ==
    /\ \A k \in Positions(IsLink) : calls[k].childID # 0
    /\ \A k \in 1..Len(taskIDs) : taskIDs[k] # 0
    /\ Len(taskIDs) = Cardinality(CreatedWithID(IsNotZero))
    /\ Len(LinkCalls) <= Cardinality(CreatedWithID(IsNotZero))
    /\ ItemDone => Len(LinkCalls) = Cardinality(CreatedWithID(IsNotZero))

C30_Witness ==
    /\ ItemDone
    /\ Cardinality(CreatedWithID(IsZero)) = 1
    /\ Cardinality(CreatedWithID(IsNotZero)) = 1
    /\ Len(LinkCalls) = 1
    /\ LinkCalls[1].childID # 0

(* C25: the calls of an item are a function of the item, of the flag, of   *)
(* what the generator returned for the item and of the results of the      *)
(* item's own calls.  NextCall gives, from the calls of the item made so   *)
(* far, the call that comes next or "none"; Request gives the arguments of *)
(* the call at a position of the log.  Neither reads a loop variable or a  *)
(* counter, so two runs that agree on the item, its generated content and  *)
(* the results of its own calls make the same calls for it, whatever the   *)
(* lookups, children and links of the items before it came to; and the     *)
(* loop variables are fresh when an item starts.                           *)
OwnItem == items[calls[1].item]

OwnCreated(log) ==
    SelectSeq(log, LAMBDA e : IsTask(e) /\ Succeeded(e) /\ Deref(e.issue).id # 0)

OwnLinks(log) == SelectSeq(log, IsLink)

NextCall(log) ==
    LET last == log[Len(log)]
    IN  IF IsGenerate(last)
        THEN IF last.err # NoError \/ IssueTitle(Deref(content), OwnItem).panic
             THEN "none"
             ELSE IF OwnItem.Parent # <<>> THEN "lookup" ELSE "primary"
        ELSE IF IsLookup(last)
        THEN IF last.err = NoError /\ last.project = Nil THEN "none" ELSE "primary"
        ELSE IF IsPrimary(last)
        THEN IF Succeeded(last) /\ autoTasks /\ Len(SuggestedTasks) > 0
             THEN "task" ELSE "none"
        ELSE IF IsTask(last)
        THEN IF last.panic THEN "none"
             ELSE IF last.task < Len(SuggestedTasks) THEN "task"
             ELSE IF OwnCreated(log) # <<>> THEN "link" ELSE "none"
        ELSE IF Len(OwnLinks(log)) < Len(OwnCreated(log)) THEN "link" ELSE "none"

CallKind(e) ==
    IF IsGenerate(e) THEN "generate"
    ELSE IF IsLookup(e) THEN "lookup"
    ELSE IF IsPrimary(e) THEN "primary"
    ELSE IF IsTask(e) THEN "task"
    ELSE "link"

OwnProject(log) ==
    LET found == SelectSeq(log, IsLookup)
    IN  IF found = <<>> THEN Nil ELSE found[1].project

OwnPrimary(log) == SelectSeq(log, IsPrimary)[1]

Request(k) ==
    LET e == calls[k]
        before == SubSeq(calls, 1, k - 1)
    IN  IF IsGenerate(e)
        THEN /\ e.type = OwnItem.Type
             /\ e.parent = OwnItem.Parent
             /\ e.context = OwnItem.Context
             /\ e.criteria = OwnItem.Criteria
             /\ e.generateTasks = autoTasks
        ELSE IF IsLookup(e)
        THEN e.name = OwnItem.Parent
        ELSE IF IsPrimary(e)
        THEN /\ e.title = IssueTitle(Deref(content), OwnItem).title
             /\ e.description = formatDescription(Deref(content))
             /\ e.labels = <<OwnItem.Type>>
             /\ e.project = OwnProject(before)
        ELSE IF IsTask(e)
        THEN /\ e.task = Len(SelectSeq(before, IsTask)) + 1
             /\ e.title = TaskTitle(SuggestedTasks[e.task])
             /\ e.description =
                   TaskDescription(Deref(OwnPrimary(before).issue).number,
                                   OwnPrimary(before).title, SuggestedTasks[e.task])
             /\ e.labels = << <<"Task">> >>
             /\ e.project = OwnProject(before)
        ELSE /\ e.parentNumber = Deref(OwnPrimary(before).issue).number
             /\ e.childID =
                   Deref(OwnCreated(before)[Len(OwnLinks(before)) + 1].issue).id

C25_State ==
    /\ \A k \in 1..Len(calls) :
          /\ calls[k].item = calls[1].item
          /\ CallKind(calls[k]) =
                IF k = 1 THEN "generate" ELSE NextCall(SubSeq(calls, 1, k - 1))
          /\ Request(k)
    /\ ItemDone => NextCall(calls) = "none"
    /\ (calls # <<>> /\ ~ItemDone /\ pc # "done") => NextCall(calls) # "none"

OpenAIOrder ==
    <<OpenAICall("GetPrompt"), OpenAICall("CreateChatCompletion"),
      OpenAICall("cleanJSONResponse"), OpenAICall("json.Unmarshal"),
      OpenAICall("validateGeneratedContent")>>

Made(op) == \E k \in 1..Len(calls) : calls[k].op = op

C26_StopsAtFirstFailure ==
    pc = "generated" =>
       /\ IsPrefix(calls, OpenAIOrder)
       /\ calls # <<>>
       /\ args.itemType \notin PromptTypes =>
             /\ ret.err = <<"failed to get prompt", "invalid item type">>
                             \o args.itemType
             /\ calls = <<OpenAICall("GetPrompt")>>
       /\ (args.itemType \in PromptTypes /\ args.apiErr # NoError) =>
             /\ ret.err = Wrap("failed to generate content", args.apiErr)
             /\ Made("CreateChatCompletion")
             /\ ~Made("json.Unmarshal")
             /\ ~Made("validateGeneratedContent")
       /\ (Parsed([args EXCEPT !.parseErr = NoError]) /\ args.parseErr # NoError) =>
             /\ ret.err = Wrap("failed to parse JSON response", args.parseErr)
             /\ Made("json.Unmarshal")
             /\ ~Made("validateGeneratedContent")
       /\ (~ret.panic /\ ret.err # NoError) => ret.content = Nil
       /\ ret.content # Nil =>
             /\ ~ret.panic
             /\ ret.err = NoError
             /\ calls = OpenAIOrder
       /\ (~ret.panic /\ ret.err = NoError) => ret.content # Nil

C26_Witness ==
    /\ pc = "generated"
    /\ args.itemType = Bug
    /\ args.apiErr = NoError
    /\ args.choices = 1
    /\ validateGeneratedContent(args.parsed) = NoError
    /\ calls = <<OpenAICall("GetPrompt")>>
    /\ ret.content = Nil
    /\ ret.err = <<"failed to get prompt", "invalid item type", "Bug">>

(* C27: addIssueToProject asks for the node id first and sends the         *)
(* mutation second, with the id the query returned.  When the query fails  *)
(* (no response, a status other than 200, GraphQL errors in the reply) the *)
(* mutation is not sent and an error is returned; nil is returned only     *)
(* when both replies came without error, with status 200 and without       *)
(* GraphQL errors.                                                         *)
ReplyOK(reply) ==
    /\ reply.err = NoError
    /\ reply.hasResp
    /\ reply.status = StatusOK
    /\ ~reply.gqlErrors

C27_State ==
    /\ Len(calls) <= 2
    /\ Len(calls) >= 1 => calls[1].op = "queryIssueNodeID"
    /\ Len(calls) = 2 =>
          /\ calls[2].op = "mutationAddProjectV2ItemByID"
          /\ calls[2].contentId = args.query.id
          /\ calls[2].projectId = args.project.ProjectID
          /\ ReplyOK(args.query)
    /\ pc = "returned" =>
          /\ ~ReplyOK(args.query) => (Len(calls) = 1 /\ ret.err # NoError)
          /\ ret.err = NoError <=> (ReplyOK(args.query) /\ ReplyOK(args.mutation))
          /\ ret.err = NoError => Len(calls) = 2

C27_NodeIDBeforeMutation ==
    /\ []C27_State
    /\ [][calls' # calls =>
            \/ calls = <<>> /\ Len(calls') = 1
            \/ Len(calls) = 1 /\ calls' = Append(calls, calls'[2])]_vars
    /\ [][pc # "returned"]_vars

C27_Witness ==
    /\ pc = "returned"
    /\ args.query.err = NoError
    /\ args.query.status = StatusOK
    /\ args.query.gqlErrors
    /\ ReplyOK(args.mutation)
    /\ Len(calls) = 1
    /\ ret.err = <<"graphql errors occurred while getting issue">>

(* C29: with OpenAIProvider as the generator, the content of every item    *)
(* that got past the generation step has a title, a description, a type    *)
(* and at least one acceptance criterion; so the title of every primary    *)
(* CreateIssue is the tag followed by the generated title, the title is    *)
(* never built from the item's context and its slice never panics, and the *)
(* body of every primary CreateIssue has the Acceptance Criteria heading   *)
(* followed by the first criterion.                                        *)
C29_GeneratedContentIsComplete ==
    /\ (calls # <<>> /\ IsGenerate(calls[1]) /\ calls[1].err = NoError
          /\ result # Panicked("index out of range")) =>
          /\ content # Nil
          /\ Deref(content).Title # <<>>
          /\ Deref(content).Description # <<>>
          /\ Deref(content).Type # <<>>
          /\ Len(Deref(content).AcceptanceCriteria) >= 1
          /\ title = <<StoryTag>> \o Deref(content).Title
    /\ result # Panicked("slice bounds out of range")
    /\ \A k \in Positions(IsPrimary) :
          /\ calls[k].title = <<StoryTag>> \o Deref(content).Title
          /\ HasLine(calls[k].description, <<"## Acceptance Criteria">>)
          /\ HasLine(calls[k].description,
                     <<"1", ". ">> \o Deref(content).AcceptanceCriteria[1])

C29_Witness ==
    /\ calls # <<>>
    /\ Len(items[calls[1].item].Context) < TitleContextBytes
    /\ PrimaryPublished
    /\ OwnPrimary(calls).title = <<StoryTag, "Pay by card">>
    /\ HasLine(OwnPrimary(calls).description, <<"## Acceptance Criteria">>)
====
